---------------------------- MODULE Spec2Model ----------------------------
(***************************************************************************)
(* Bit-banged I2C master of src/src/i2c.cpp (ATtiny85, SDA = PB0,          *)
(* SCL = PB2), modelled at the level of single register writes.            *)
(*                                                                         *)
(* Program counters are the line numbers of src/src/i2c.cpp.  The API      *)
(* functions (begin, write, read, writeRegister, readRegister) run at the  *)
(* outer level (fn, apc); the private routines (start_condition,           *)
(* stop_condition, write_byte, read_byte) at the inner level (sub, spc);   *)
(* a pin helper is two register writes (half = 1, 2).                      *)
(***************************************************************************)
EXTENDS Integers, Sequences, FiniteSets, TLC

VARIABLES
    DDRB, PORTB,        \* the two 8-bit port registers
    caller,             \* API function the application called ("none" before begin)
    fn, apc,            \* API function whose body runs ("none" = returned), its line
    addr7, data, len,   \* arguments of write / read
    reg, wval,          \* arguments of writeRegister / readRegister
    i,                  \* loop variable of write / read (uint8_t)
    buf, val, ret,      \* outputs: read buffer, readRegister's val, return value
    pre,                \* buf and val as they were when the call was made
    sub, spc,           \* private routine that runs ("none" = not in one), its line
    barg, b, bi,        \* write_byte/read_byte: argument byte, working byte, loop i
    ackArg, ack,        \* read_byte's parameter ack, write_byte's local ack
    half,               \* which register write of the current pin helper is next
    settled,            \* TRUE iff i2c_delay ran since the call's last pin helper call
    quiet,              \* TRUE iff no line changed state since the call's last i2c_delay
    peerKind,           \* "any": arbitrary peer, "mock": register device
    peerPat, clk,       \* levels the peer presents in the 9 bit slots; SCL falls so far
    mock,               \* state of the mock register device
    bus, latch,         \* bus decoder: events seen on the lines, bit latched at SCL rise
    ops,                \* private routines the current call has run, in order
    edges,              \* changes of the master's SDA state made while SCL is released
    samples,            \* SDA levels returned by sda_read in the current byte
    pats,               \* the peer's patterns for the bytes of the current call
    prev                \* the call before this one, if it was a writeRegister

regV  == <<DDRB, PORTB>>
argV  == <<addr7, data, len, reg, wval>>
apiV  == <<caller, fn, apc, i>>
outV  == <<buf, val, ret, pre>>
subV  == <<sub, spc, barg, b, bi, ackArg, ack>>
peerV == <<peerKind, peerPat, clk, mock>>
obsV  == <<bus, latch, edges>>
vars  == <<DDRB, PORTB, caller, fn, apc, addr7, data, len, reg, wval, i, buf, val,
           ret, pre, sub, spc, barg, b, bi, ackArg, ack, half, settled, quiet,
           peerKind,
           peerPat, clk, mock, bus, latch, ops, edges, samples, pats, prev>>

-----------------------------------------------------------------------------
(* Bounds and input sets *)

MaxLen == 2     \* longest payload of write / longest read

Addrs == {60, 80, 127}                  \* 0x3C, 0x50, 0x7F
DataBytes == {174, 1}                   \* 0xAE, 0x01: payload bytes of write
RegBytes == {0, 16}                     \* register numbers
ValBytes == {0, 1, 127, 128, 255}       \* 0x00 0x01 0x7F 0x80 0xFF
OutInit == {90}                         \* 0x5A: what val / buf hold before a call
InitRegs == {<<0, 0>>, <<5, 1>>, <<1, 4>>, <<5, 5>>, <<175, 85>>, <<170, 80>>}

\* Levels (1 = released, 0 = pulled low) a peer presents in the nine bit slots
\* of one byte: eight data slots and the acknowledge slot.
AckPat    == <<1, 1, 1, 1, 1, 1, 1, 1, 0>>
SilentPat == <<1, 1, 1, 1, 1, 1, 1, 1, 1>>
HoldLow   == <<0, 0, 0, 0, 0, 0, 0, 0, 0>>
PeerPatterns == {AckPat, SilentPat, HoldLow,
                 <<0, 1, 0, 0, 0, 0, 1, 0, 1>>,     \* 0x42 MSB first
                 <<1, 0, 1, 1, 0, 0, 1, 0, 1>>}     \* 0xB2 MSB first

SeqsUpTo(S, n) == UNION {[1..k -> S] : k \in 0..n}

-----------------------------------------------------------------------------
(* Registers and lines *)

SDA_b == 0
SCL_b == 2

Pow2(n) == IF n = 0 THEN 1 ELSE IF n = 1 THEN 2 ELSE IF n = 2 THEN 4 ELSE 8
BitOf(x, n) == (x \div Pow2(n)) % 2
SetBit(x, n) == IF BitOf(x, n) = 1 THEN x ELSE x + Pow2(n)
ClearBit(x, n) == IF BitOf(x, n) = 1 THEN x - Pow2(n) ELSE x

\* The state the master puts a line in: "rel" (input), "low" or "high" (output).
LineState(D, P, n) ==
    IF BitOf(D, n) = 0 THEN "rel" ELSE IF BitOf(P, n) = 0 THEN "low" ELSE "high"

\* The peer pulls SDA low in bit slot clk+1 of the byte iff its pattern says 0.
PeerLow(pat, c) == c < 9 /\ pat[c + 1] = 0

\* Level on the wire: low iff somebody pulls it low (wired AND).
SdaLevel(D, P, pat, c) ==
    IF LineState(D, P, SDA_b) = "low" \/ PeerLow(pat, c) THEN 0 ELSE 1
SclLevel(D, P) == IF LineState(D, P, SCL_b) = "low" THEN 0 ELSE 1

sda_read == SdaLevel(DDRB, PORTB, peerPat, clk)


-----------------------------------------------------------------------------
(* Pure expressions of the code *)

\* A bug: the address is not shifted past the direction bit.
AddrByte_NoShift(a, rw) == (a + rw) % 256

\* (addr7 << 1) | rw, converted to the uint8_t parameter of write_byte.
AddrByte(a, rw) == ((a * 2) + rw) % 256

\* A bug: value and register number are swapped.
RegisterPayload_Swapped(r, v) == <<v, r>>

\* uint8_t d[2] = { reg, val };
RegisterPayload(r, v) == <<r, v>>

\* A bug: every byte read is acknowledged, the last one too.
ReadAck_Always(k, n) == k < n

\* bool ack = (i + 1 < len);   (int arithmetic, no wrap)
ReadAck(k, n) == k + 1 < n

\* A bug: the low bit is sent first.
TopBit_Lsb(x) == x % 2

\* b & 0x80
TopBit(x) == (x \div 128) % 2

\* A bug: the received byte is not shifted.
ShiftLeft_NoOp(x) == x

\* b <<= 1 on a uint8_t
ShiftLeft(x) == (x * 2) % 256

\* A bug: the sampled level is taken the wrong way round.
OrSample_Inverted(x, s) == IF s = 0 THEN (x - (x % 2)) + 1 ELSE x

\* if (sda_read()) b |= 1;   (b was shifted left, its bit 0 is clear)
OrSample(x, s) == IF s # 0 THEN (x - (x % 2)) + 1 ELSE x

\* A bug: the acknowledge level is read the wrong way round.
AckOf_Inverted(s) == s # 0

\* A bug: every byte counts as acknowledged.
AckOf_AlwaysTrue(s) == s = s

\* bool ack = (sda_read() == 0);
AckOf(s) == s = 0

-----------------------------------------------------------------------------
(* The instruction at each line of the private routines *)

\* A bug: start_condition does not release SCL, so a repeated start makes no
\* start edge.
StartInstr_NoSclRelease(l) ==
    CASE l = 99  -> "sda_release"
      [] l = 100 -> "i2c_delay"
      [] l = 101 -> "i2c_delay"
      [] l = 102 -> "sda_low"
      [] l = 103 -> "i2c_delay"
      [] l = 104 -> "scl_low"
      [] l = 105 -> "i2c_delay"
      [] OTHER   -> "return"

\* A bug: start_condition pulls SCL low before SDA.
StartInstr_ClockFirst(l) ==
    CASE l = 99  -> "sda_release"
      [] l = 100 -> "scl_release"
      [] l = 101 -> "i2c_delay"
      [] l = 102 -> "scl_low"
      [] l = 103 -> "i2c_delay"
      [] l = 104 -> "sda_low"
      [] l = 105 -> "i2c_delay"
      [] OTHER   -> "return"

StartInstr(l) ==
    CASE l = 99  -> "sda_release"
      [] l = 100 -> "scl_release"
      [] l = 101 -> "i2c_delay"
      [] l = 102 -> "sda_low"
      [] l = 103 -> "i2c_delay"
      [] l = 104 -> "scl_low"
      [] l = 105 -> "i2c_delay"
      [] OTHER   -> "return"

\* A bug: stop_condition forgets to release SDA.
StopInstr_NoRelease(l) ==
    CASE l = 109 -> "sda_low"
      [] l = 110 -> "i2c_delay"
      [] l = 111 -> "scl_release"
      [] l = 112 -> "i2c_delay"
      [] l = 113 -> "i2c_delay"
      [] l = 114 -> "i2c_delay"
      [] OTHER   -> "return"

\* A bug: stop_condition releases SCL right after it drove SDA low, and waits
\* afterwards.
StopInstr_NoSettle(l) ==
    CASE l = 109 -> "sda_low"
      [] l = 110 -> "scl_release"
      [] l = 111 -> "i2c_delay"
      [] l = 112 -> "i2c_delay"
      [] l = 113 -> "sda_release"
      [] l = 114 -> "i2c_delay"
      [] OTHER   -> "return"

StopInstr(l) ==
    CASE l = 109 -> "sda_low"
      [] l = 110 -> "i2c_delay"
      [] l = 111 -> "scl_release"
      [] l = 112 -> "i2c_delay"
      [] l = 113 -> "sda_release"
      [] l = 114 -> "i2c_delay"
      [] OTHER   -> "return"

\* A bug: write_byte does not release SDA before it samples the acknowledge.
WriteByteInstr_NoAckRelease(l, x) ==
    CASE l = 118 -> "for"
      [] l = 119 -> IF TopBit(x) = 1 THEN "sda_release" ELSE "sda_low"
      [] l = 120 -> "shift"
      [] l = 121 -> "i2c_delay"
      [] l = 122 -> "scl_release"
      [] l = 123 -> "i2c_delay"
      [] l = 124 -> "scl_low"
      [] l = 125 -> "i2c_delay"
      [] l = 126 -> "endfor"
      [] l = 128 -> "i2c_delay"
      [] l = 129 -> "i2c_delay"
      [] l = 130 -> "scl_release"
      [] l = 131 -> "i2c_delay"
      [] l = 132 -> "sample"
      [] l = 133 -> "scl_low"
      [] l = 134 -> "i2c_delay"
      [] OTHER   -> "return"

\* A bug: write_byte sets the data bit after raising the clock.
WriteByteInstr_DataAfterClock(l, x) ==
    CASE l = 118 -> "for"
      [] l = 119 -> "scl_release"
      [] l = 120 -> "shift"
      [] l = 121 -> "i2c_delay"
      [] l = 122 -> IF TopBit(x * 2) = 1 THEN "sda_release" ELSE "sda_low"
      [] l = 123 -> "i2c_delay"
      [] l = 124 -> "scl_low"
      [] l = 125 -> "i2c_delay"
      [] l = 126 -> "endfor"
      [] l = 128 -> "sda_release"
      [] l = 129 -> "i2c_delay"
      [] l = 130 -> "scl_release"
      [] l = 131 -> "i2c_delay"
      [] l = 132 -> "sample"
      [] l = 133 -> "scl_low"
      [] l = 134 -> "i2c_delay"
      [] OTHER   -> "return"

\* A bug: write_byte samples the acknowledge without raising the clock.
WriteByteInstr_NoAckClock(l, x) ==
    CASE l = 118 -> "for"
      [] l = 119 -> IF TopBit(x) = 1 THEN "sda_release" ELSE "sda_low"
      [] l = 120 -> "shift"
      [] l = 121 -> "i2c_delay"
      [] l = 122 -> "scl_release"
      [] l = 123 -> "i2c_delay"
      [] l = 124 -> "scl_low"
      [] l = 125 -> "i2c_delay"
      [] l = 126 -> "endfor"
      [] l = 128 -> "sda_release"
      [] l = 129 -> "i2c_delay"
      [] l = 130 -> "i2c_delay"
      [] l = 131 -> "i2c_delay"
      [] l = 132 -> "sample"
      [] l = 133 -> "scl_low"
      [] l = 134 -> "i2c_delay"
      [] OTHER   -> "return"

\* A bug: write_byte waits at the acknowledge sample for a condition that
\* never comes.
WriteByteInstr_WaitAtSample(l, x) ==
    CASE l = 118 -> "for"
      [] l = 119 -> IF TopBit(x) = 1 THEN "sda_release" ELSE "sda_low"
      [] l = 120 -> "shift"
      [] l = 121 -> "i2c_delay"
      [] l = 122 -> "scl_release"
      [] l = 123 -> "i2c_delay"
      [] l = 124 -> "scl_low"
      [] l = 125 -> "i2c_delay"
      [] l = 126 -> "endfor"
      [] l = 128 -> "sda_release"
      [] l = 129 -> "i2c_delay"
      [] l = 130 -> "scl_release"
      [] l = 131 -> "i2c_delay"
      [] l = 132 -> "wait"
      [] l = 133 -> "scl_low"
      [] l = 134 -> "i2c_delay"
      [] OTHER   -> "return"

WriteByteInstr(l, x) ==
    CASE l = 118 -> "for"
      [] l = 119 -> IF TopBit(x) = 1 THEN "sda_release" ELSE "sda_low"
      [] l = 120 -> "shift"
      [] l = 121 -> "i2c_delay"
      [] l = 122 -> "scl_release"
      [] l = 123 -> "i2c_delay"
      [] l = 124 -> "scl_low"
      [] l = 125 -> "i2c_delay"
      [] l = 126 -> "endfor"
      [] l = 128 -> "sda_release"
      [] l = 129 -> "i2c_delay"
      [] l = 130 -> "scl_release"
      [] l = 131 -> "i2c_delay"
      [] l = 132 -> "sample"
      [] l = 133 -> "scl_low"
      [] l = 134 -> "i2c_delay"
      [] OTHER   -> "return"

\* A bug: read_byte waits at the sample of a data bit for a condition that
\* never comes.
ReadByteInstr_WaitAtSample(l, a) ==
    CASE l = 139 -> "init"
      [] l = 140 -> "for"
      [] l = 141 -> "shift"
      [] l = 142 -> "sda_release"
      [] l = 143 -> "i2c_delay"
      [] l = 144 -> "scl_release"
      [] l = 145 -> "i2c_delay"
      [] l = 146 -> "wait"
      [] l = 147 -> "scl_low"
      [] l = 148 -> "i2c_delay"
      [] l = 149 -> "endfor"
      [] l = 151 -> IF a THEN "sda_low" ELSE "sda_release"
      [] l = 152 -> "i2c_delay"
      [] l = 153 -> "scl_release"
      [] l = 154 -> "i2c_delay"
      [] l = 155 -> "scl_low"
      [] l = 156 -> "i2c_delay"
      [] l = 157 -> "sda_release"
      [] OTHER   -> "return"

ReadByteInstr(l, a) ==
    CASE l = 139 -> "init"
      [] l = 140 -> "for"
      [] l = 141 -> "shift"
      [] l = 142 -> "sda_release"
      [] l = 143 -> "i2c_delay"
      [] l = 144 -> "scl_release"
      [] l = 145 -> "i2c_delay"
      [] l = 146 -> "sample"
      [] l = 147 -> "scl_low"
      [] l = 148 -> "i2c_delay"
      [] l = 149 -> "endfor"
      [] l = 151 -> IF a THEN "sda_low" ELSE "sda_release"
      [] l = 152 -> "i2c_delay"
      [] l = 153 -> "scl_release"
      [] l = 154 -> "i2c_delay"
      [] l = 155 -> "scl_low"
      [] l = 156 -> "i2c_delay"
      [] l = 157 -> "sda_release"
      [] OTHER   -> "return"

BeginInstr(l) ==
    CASE l = 53 -> "sda_release"
      [] l = 54 -> "scl_release"
      [] OTHER  -> "return"

\* The instruction the program is about to execute.
CurInstr ==
    CASE sub = "start_condition" -> StartInstr(spc)
      [] sub = "stop_condition"  -> StopInstr(spc)
      [] sub = "write_byte"      -> WriteByteInstr(spc, b)
      [] sub = "read_byte"       -> ReadByteInstr(spc, ackArg)
      [] sub = "none" /\ fn = "begin" -> BeginInstr(apc[1])
      [] OTHER -> "api"

\* Move past a pin helper call or an i2c_delay() in the routine that made it.
Advance ==
    IF sub = "none"
      THEN /\ apc' = <<apc[1] + 1, "call">>
           /\ UNCHANGED <<sub, spc>>
      ELSE /\ spc' = spc + 1
           /\ UNCHANGED <<sub, apc>>


-----------------------------------------------------------------------------
(* What a register write does to the wires, as the peer and a bus decoder  *)
(* see it.  D2, P2 are the registers after the write.                      *)

\* How the decoder names the level of SDA: "M" the master drives it low, "0" only
\* the peer pulls it low, "1" it is high.
LevelName(m, l) == IF m = "low" THEN "M" ELSE IF l = 0 THEN "0" ELSE "1"

\* The mock register device has received a whole byte (nine clocks).
MockByte(m) ==
    LET byte == SubSeq(m.rx, 1, 8)
        wr   == ~m.rd
    IN  [rx     |-> <<>>,
         idx    |-> m.idx + 1,
         rd     |-> IF m.idx = 0 THEN m.rx[8] = 1 ELSE m.rd,
         ptr    |-> IF wr /\ m.idx = 1 THEN byte ELSE m.ptr,
         memReg |-> IF wr /\ m.idx = 2 THEN m.ptr ELSE m.memReg,
         memVal |-> IF wr /\ m.idx = 2 THEN byte ELSE m.memVal]

\* The levels the mock device presents during the next byte.
MockPattern(m) ==
    IF m.rd /\ m.idx >= 1
      THEN IF m.ptr = m.memReg /\ Len(m.memVal) = 8
             THEN Append(m.memVal, 1)
             ELSE SilentPat
      ELSE AckPat

PeerChoices == IF peerKind = "mock" THEN {MockPattern(mock)} ELSE PeerPatterns

Observe(D2, P2) ==
    LET sclO  == SclLevel(DDRB, PORTB)
        sclN  == SclLevel(D2, P2)
        rise  == sclO = 0 /\ sclN = 1
        fall  == sclO = 1 /\ sclN = 0
        clk2  == IF fall /\ sub \in {"write_byte", "read_byte"} THEN clk + 1 ELSE clk
        sdaO  == SdaLevel(DDRB, PORTB, peerPat, clk)
        sdaN  == SdaLevel(D2, P2, peerPat, clk2)
        high  == sclO = 1 /\ sclN = 1
        sEv   == high /\ sdaO = 1 /\ sdaN = 0
        pEv   == high /\ sdaO = 0 /\ sdaN = 1
        mO    == LineState(DDRB, PORTB, SDA_b)
        mN    == LineState(D2, P2, SDA_b)
    IN  /\ clk' = clk2
        /\ latch' = IF rise THEN LevelName(mN, sdaN)
                    ELSE IF fall \/ sEv \/ pEv THEN "none" ELSE latch
        /\ bus' = IF fall /\ latch # "none" THEN Append(bus, latch)
                  ELSE IF sEv THEN Append(bus, "S")
                  ELSE IF pEv THEN Append(bus, "P") ELSE bus
        /\ edges' = IF mO # mN /\ LineState(DDRB, PORTB, SCL_b) = "rel"
                      THEN Append(edges, [from |-> mO, to |-> mN, in |-> sub])
                      ELSE edges
        /\ mock' = IF peerKind # "mock" THEN mock
                   ELSE IF sEv \/ pEv
                     THEN [mock EXCEPT !.rx = <<>>, !.idx = 0, !.rd = FALSE]
                   ELSE IF rise /\ Len(mock.rx) < 9
                     THEN [mock EXCEPT !.rx = Append(@, sdaN)]
                   ELSE IF fall /\ Len(mock.rx) = 9 THEN MockByte(mock)
                   ELSE mock

-----------------------------------------------------------------------------
(* Pin helpers: two register writes each (lines 34-39), and the delay *)

LowDDRB(D, n)      == SetBit(D, n)        \* DDRB  |=  (1 << n)
\* A bug: driving a line low assigns the whole port (PORTB = 0).
LowPORTB_Assign(P, n) == 0

LowPORTB(P, n)     == ClearBit(P, n)      \* PORTB &= ~(1 << n)
ReleaseDDRB(D, n)  == ClearBit(D, n)      \* DDRB  &= ~(1 << n)
\* A bug: releasing a line switches its pull-up on (output bit set).
ReleasePORTB_PullUp(P, n) == SetBit(P, n)

ReleasePORTB(P, n) == ClearBit(P, n)      \* PORTB &= ~(1 << n)

PinFrame == UNCHANGED <<caller, fn, argV, i, outV, barg, b, bi, ackArg, ack,
                        peerKind, peerPat, ops, samples, pats, prev>>

\* The register write to D2, P2 changes the state the master puts a line in.
LinesChange(D2, P2) ==
    \/ LineState(D2, P2, SDA_b) # LineState(DDRB, PORTB, SDA_b)
    \/ LineState(D2, P2, SCL_b) # LineState(DDRB, PORTB, SCL_b)

PinHelper(D2, P2) ==
    /\ IF half = 1
         THEN /\ DDRB' = D2 /\ PORTB' = PORTB
              /\ Observe(D2, PORTB)
              /\ quiet' = (quiet /\ ~LinesChange(D2, PORTB))
              /\ half' = 2
              /\ settled' = FALSE
              /\ UNCHANGED <<sub, spc, apc>>
         ELSE /\ DDRB' = DDRB /\ PORTB' = P2
              /\ Observe(DDRB, P2)
              /\ quiet' = (quiet /\ ~LinesChange(DDRB, P2))
              /\ half' = 1
              /\ Advance
              /\ UNCHANGED settled
    /\ PinFrame

sda_low ==
    /\ CurInstr = "sda_low"
    /\ PinHelper(LowDDRB(DDRB, SDA_b), LowPORTB(PORTB, SDA_b))

sda_release ==
    /\ CurInstr = "sda_release"
    /\ PinHelper(ReleaseDDRB(DDRB, SDA_b), ReleasePORTB(PORTB, SDA_b))

scl_low ==
    /\ CurInstr = "scl_low"
    /\ PinHelper(LowDDRB(DDRB, SCL_b), LowPORTB(PORTB, SCL_b))

scl_release ==
    /\ CurInstr = "scl_release"
    /\ PinHelper(ReleaseDDRB(DDRB, SCL_b), ReleasePORTB(PORTB, SCL_b))

i2c_delay ==
    /\ CurInstr = "i2c_delay"
    /\ settled' = TRUE
    /\ quiet' = TRUE
    /\ Advance
    /\ UNCHANGED <<regV, half, clk, mock, obsV>>
    /\ PinFrame


-----------------------------------------------------------------------------
(* Private routines: the steps that are not pin helper calls or delays *)

OpRec(name, x, a) == [op |-> name, x |-> x, a |-> a]

SubFrame == UNCHANGED <<regV, caller, fn, apc, argV, i, outV, half, settled, quiet,
                        peerV, obsV, pats, prev>>

start_condition ==
    /\ sub = "start_condition"
    /\ CurInstr = "return"
    /\ sub' = "none"
    /\ ops' = Append(ops, OpRec("start_condition", 0, FALSE))
    /\ UNCHANGED <<spc, barg, b, bi, ackArg, ack, samples>>
    /\ SubFrame

stop_condition ==
    /\ sub = "stop_condition"
    /\ CurInstr = "return"
    /\ sub' = "none"
    /\ ops' = Append(ops, OpRec("stop_condition", 0, FALSE))
    /\ UNCHANGED <<spc, barg, b, bi, ackArg, ack, samples>>
    /\ SubFrame

write_byte ==
    /\ sub = "write_byte"
    /\ \/ /\ CurInstr = "for"                    \* line 118: i = 0; 0 < 8
          /\ bi' = 0
          /\ spc' = 119
          /\ UNCHANGED <<sub, b, ack, samples, ops>>
       \/ /\ CurInstr = "shift"                  \* line 120
          /\ b' = ShiftLeft(b)
          /\ spc' = spc + 1
          /\ UNCHANGED <<sub, bi, ack, samples, ops>>
       \/ /\ CurInstr = "endfor"                 \* line 118: ++i; i < 8
          /\ bi' = bi + 1
          /\ spc' = IF bi + 1 < 8 THEN 119 ELSE 128
          /\ UNCHANGED <<sub, b, ack, samples, ops>>
       \/ /\ CurInstr = "sample"                 \* line 132
          /\ ack' = AckOf(sda_read)
          /\ samples' = Append(samples, sda_read)
          /\ spc' = spc + 1
          /\ UNCHANGED <<sub, b, bi, ops>>
       \/ /\ CurInstr = "return"                 \* line 135
          /\ sub' = "none"
          /\ ops' = Append(ops, OpRec("write_byte", barg, ack))
          /\ UNCHANGED <<spc, b, bi, ack, samples>>
    /\ UNCHANGED <<barg, ackArg>>
    /\ SubFrame

read_byte ==
    /\ sub = "read_byte"
    /\ \/ /\ CurInstr = "init"                   \* line 139
          /\ b' = 0
          /\ spc' = 140
          /\ UNCHANGED <<sub, bi, samples, ops>>
       \/ /\ CurInstr = "for"                    \* line 140: i = 0; 0 < 8
          /\ bi' = 0
          /\ spc' = 141
          /\ UNCHANGED <<sub, b, samples, ops>>
       \/ /\ CurInstr = "shift"                  \* line 141
          /\ b' = ShiftLeft(b)
          /\ spc' = spc + 1
          /\ UNCHANGED <<sub, bi, samples, ops>>
       \/ /\ CurInstr = "sample"                 \* line 146
          /\ b' = OrSample(b, sda_read)
          /\ samples' = Append(samples, sda_read)
          /\ spc' = spc + 1
          /\ UNCHANGED <<sub, bi, ops>>
       \/ /\ CurInstr = "endfor"                 \* line 140: ++i; i < 8
          /\ bi' = bi + 1
          /\ spc' = IF bi + 1 < 8 THEN 141 ELSE 151
          /\ UNCHANGED <<sub, b, samples, ops>>
       \/ /\ CurInstr = "return"                 \* line 158
          /\ sub' = "none"
          /\ ops' = Append(ops, OpRec("read_byte", b, ackArg))
          /\ UNCHANGED <<spc, b, bi, samples>>
    /\ UNCHANGED <<barg, ackArg, ack>>
    /\ SubFrame

-----------------------------------------------------------------------------
(* Calls made by the API functions *)

ApiFrame == UNCHANGED <<regV, caller, argV, half, settled, quiet, peerKind, mock,
                        obsV, prev>>

\* start_condition(); then continue at `next`
CallStart(next) ==
    /\ sub' = "start_condition" /\ spc' = 99 /\ apc' = next
    /\ UNCHANGED <<fn, i, outV, barg, b, bi, ackArg, ack, peerPat, clk, ops, samples,
                   pats>>
    /\ ApiFrame

\* stop_condition(); then continue at `next`
CallStop(next) ==
    /\ sub' = "stop_condition" /\ spc' = 109 /\ apc' = next
    /\ UNCHANGED <<fn, i, outV, barg, b, bi, ackArg, ack, peerPat, clk, ops, samples,
                   pats>>
    /\ ApiFrame

\* write_byte(x); the peer decides what it will do during this byte
CallWriteByte(x, next) ==
    /\ sub' = "write_byte" /\ spc' = 118 /\ apc' = next
    /\ barg' = x /\ b' = x /\ bi' = 0 /\ ack' = FALSE
    /\ peerPat' \in PeerChoices
    /\ clk' = 0
    /\ samples' = <<>>
    /\ pats' = Append(pats, peerPat')
    /\ UNCHANGED <<fn, i, outV, ackArg, ops>>
    /\ ApiFrame

\* read_byte(a); the peer decides what it will do during this byte
CallReadByte(a, next) ==
    /\ sub' = "read_byte" /\ spc' = 139 /\ apc' = next
    /\ ackArg' = a /\ barg' = 0 /\ b' = 0 /\ bi' = 0
    /\ peerPat' \in PeerChoices
    /\ clk' = 0
    /\ samples' = <<>>
    /\ pats' = Append(pats, peerPat')
    /\ UNCHANGED <<fn, i, outV, ack, ops>>
    /\ ApiFrame

\* A bug: every step of the API function clears the caller's output.
Goto_ClearsOutput(next, i2, buf2, val2) ==
    /\ apc' = next /\ i' = i2
    /\ buf' = [k \in DOMAIN buf2 |-> 0] /\ val' = 0
    /\ UNCHANGED <<fn, ret, pre, subV, peerPat, clk, ops, samples, pats>>
    /\ ApiFrame

\* a step inside the API function that calls nothing
Goto(next, i2, buf2, val2) ==
    /\ apc' = next /\ i' = i2 /\ buf' = buf2 /\ val' = val2
    /\ UNCHANGED <<fn, ret, pre, subV, peerPat, clk, ops, samples, pats>>
    /\ ApiFrame

\* return v; a write called by writeRegister returns into line 80
Return(v) ==
    /\ ret' = v
    /\ IF fn = "write" /\ caller = "writeRegister"
         THEN fn' = "writeRegister" /\ apc' = <<80, "ret">>
         ELSE fn' = "none" /\ UNCHANGED apc
    /\ UNCHANGED <<i, buf, val, pre, subV, peerPat, clk, ops, samples, pats>>
    /\ ApiFrame


-----------------------------------------------------------------------------
(* The API functions *)

begin ==
    /\ fn = "begin" /\ sub = "none"
    /\ CurInstr = "return"                                       \* line 55
    /\ fn' = "none"
    /\ UNCHANGED <<apc, i, outV, subV, peerPat, clk, ops, samples, pats>>
    /\ ApiFrame

write ==
    /\ fn = "write" /\ sub = "none"
    /\ \/ /\ apc = <<58, "call">>
          /\ CallStart(<<59, "call">>)
       \/ /\ apc = <<59, "call">>
          /\ CallWriteByte(AddrByte(addr7, 0), <<59, "test">>)
       \/ /\ apc = <<59, "test">>
          /\ IF ~ack THEN CallStop(<<59, "ret">>)
                     ELSE Goto(<<60, "for">>, i, buf, val)
       \/ /\ apc = <<59, "ret">>
          /\ Return(FALSE)
       \/ /\ apc = <<60, "for">>                                 \* i = 0; i < len
          /\ Goto(IF 0 < len THEN <<61, "call">> ELSE <<63, "call">>, 0, buf, val)
       \/ /\ apc = <<61, "call">>
          /\ CallWriteByte(data[i + 1], <<61, "test">>)
       \/ /\ apc = <<61, "test">>                                \* ++i; i < len
          /\ IF ~ack THEN CallStop(<<61, "ret">>)
                     ELSE Goto(IF (i + 1) % 256 < len THEN <<61, "call">>
                                                      ELSE <<63, "call">>,
                               (i + 1) % 256, buf, val)
       \/ /\ apc = <<61, "ret">>
          /\ Return(FALSE)
       \/ /\ apc = <<63, "call">>
          /\ CallStop(<<64, "ret">>)
       \/ /\ apc = <<64, "ret">>
          /\ Return(TRUE)

read ==
    /\ fn = "read" /\ sub = "none"
    /\ \/ /\ apc = <<68, "call">>
          /\ CallStart(<<69, "call">>)
       \/ /\ apc = <<69, "call">>
          /\ CallWriteByte(AddrByte(addr7, 1), <<69, "test">>)
       \/ /\ apc = <<69, "test">>
          /\ IF ~ack THEN CallStop(<<69, "ret">>)
                     ELSE Goto(<<70, "for">>, i, buf, val)
       \/ /\ apc = <<69, "ret">>
          /\ Return(FALSE)
       \/ /\ apc = <<70, "for">>                                 \* i = 0; i < len
          /\ Goto(IF 0 < len THEN <<71, "call">> ELSE <<74, "call">>, 0, buf, val)
       \/ /\ apc = <<71, "call">>                                \* lines 71-72
          /\ CallReadByte(ReadAck(i, len), <<72, "asg">>)
       \/ /\ apc = <<72, "asg">>                                 \* buf[i] = ...; ++i
          /\ Goto(IF (i + 1) % 256 < len THEN <<71, "call">> ELSE <<74, "call">>,
                  (i + 1) % 256, [buf EXCEPT ![i + 1] = b], val)
       \/ /\ apc = <<74, "call">>
          /\ CallStop(<<75, "ret">>)
       \/ /\ apc = <<75, "ret">>
          /\ Return(TRUE)

writeRegister ==
    /\ fn = "writeRegister" /\ sub = "none"
    /\ \/ /\ apc = <<79, "call">>                                \* d = { reg, val }
          /\ data' = RegisterPayload(reg, wval)
          /\ apc' = <<80, "call">>
          /\ UNCHANGED <<fn, len, ret>>
       \/ /\ apc = <<80, "call">>                                \* write(addr7, d, 2)
          /\ fn' = "write"
          /\ len' = 2
          /\ apc' = <<58, "call">>
          /\ UNCHANGED <<data, ret>>
       \/ /\ apc = <<80, "ret">>                                 \* return its result
          /\ fn' = "none"
          /\ UNCHANGED <<apc, data, len, ret>>
    /\ UNCHANGED <<regV, caller, addr7, reg, wval, i, buf, val, pre, subV, half,
                   settled, quiet, peerV, obsV, ops, samples, pats, prev>>

readRegister ==
    /\ fn = "readRegister" /\ sub = "none"
    /\ \/ /\ apc = <<85, "call">>
          /\ CallStart(<<86, "call">>)
       \/ /\ apc = <<86, "call">>
          /\ CallWriteByte(AddrByte(addr7, 0), <<86, "test">>)
       \/ /\ apc = <<86, "test">>
          /\ IF ~ack THEN CallStop(<<86, "ret">>)
                     ELSE Goto(<<87, "call">>, i, buf, val)
       \/ /\ apc = <<86, "ret">>
          /\ Return(FALSE)
       \/ /\ apc = <<87, "call">>
          /\ CallWriteByte(reg, <<87, "test">>)
       \/ /\ apc = <<87, "test">>
          /\ IF ~ack THEN CallStop(<<87, "ret">>)
                     ELSE Goto(<<89, "call">>, i, buf, val)
       \/ /\ apc = <<87, "ret">>
          /\ Return(FALSE)
       \/ /\ apc = <<89, "call">>                                \* repeated start
          /\ CallStart(<<90, "call">>)
       \/ /\ apc = <<90, "call">>
          /\ CallWriteByte(AddrByte(addr7, 1), <<90, "test">>)
       \/ /\ apc = <<90, "test">>
          /\ IF ~ack THEN CallStop(<<90, "ret">>)
                     ELSE Goto(<<91, "call">>, i, buf, val)
       \/ /\ apc = <<90, "ret">>
          /\ Return(FALSE)
       \/ /\ apc = <<91, "call">>
          /\ CallReadByte(FALSE, <<91, "asg">>)
       \/ /\ apc = <<91, "asg">>                                 \* val = ...
          /\ Goto(<<92, "call">>, i, buf, b)
       \/ /\ apc = <<92, "call">>
          /\ CallStop(<<93, "ret">>)
       \/ /\ apc = <<93, "ret">>
          /\ Return(TRUE)

-----------------------------------------------------------------------------
(* The application: begin() once, then any sequence of calls *)

Idle == fn = "none" /\ sub = "none"

NoPrev == [wr |-> FALSE, a |-> 0, r |-> 0, v |-> 0, ok |-> FALSE]

\* What the mock-device runs remember of the call before a readRegister.
PrevCall(name) ==
    IF peerKind = "mock" /\ name = "readRegister" /\ caller = "writeRegister"
      THEN [wr |-> TRUE, a |-> addr7, r |-> reg, v |-> wval, ok |-> ret]
      ELSE NoPrev

\* A call from the application.  The locals of the previous call are dead;
\* they are put back to their initial values.
Enter(name, line, a, d, n, r, v, buf0, val0) ==
    /\ caller' = name /\ fn' = name /\ apc' = <<line, "call">>
    /\ addr7' = a /\ data' = d /\ len' = n /\ reg' = r /\ wval' = v
    /\ i' = 0
    /\ buf' = buf0 /\ val' = val0 /\ ret' = FALSE
    /\ pre' = [buf |-> buf0, val |-> val0]
    /\ sub' = "none" /\ spc' = 0
    /\ barg' = 0 /\ b' = 0 /\ bi' = 0 /\ ackArg' = FALSE /\ ack' = FALSE
    /\ peerPat' = SilentPat /\ clk' = 9
    /\ bus' = <<>> /\ latch' = "none" /\ edges' = <<>>
    /\ ops' = <<>> /\ samples' = <<>> /\ pats' = <<>>
    /\ prev' = PrevCall(name)
    /\ settled' = TRUE /\ quiet' = TRUE
    /\ UNCHANGED <<regV, half, peerKind, mock>>

CallBegin ==
    /\ Idle /\ caller = "none"
    /\ Enter("begin", 53, 0, <<>>, 0, 0, 0, <<>>, 0)

CallWrite ==
    /\ Idle /\ caller # "none"
    /\ \E a \in Addrs, d \in SeqsUpTo(DataBytes, MaxLen) :
          Enter("write", 58, a, d, Len(d), 0, 0, <<>>, 0)

CallRead ==
    /\ Idle /\ caller # "none"
    /\ \E a \in Addrs, n \in 0..MaxLen, o \in OutInit :
          Enter("read", 68, a, <<>>, n, 0, 0, [k \in 1..n |-> o], 0)

CallWriteRegister ==
    /\ Idle /\ caller # "none"
    /\ \E a \in Addrs, r \in RegBytes, v \in ValBytes :
          Enter("writeRegister", 79, a, <<>>, 0, r, v, <<>>, 0)

CallReadRegister ==
    /\ Idle /\ caller # "none"
    /\ \E a \in Addrs, r \in RegBytes, o \in OutInit :
          Enter("readRegister", 85, a, <<>>, 0, r, 0, <<>>, o)

InitWith(kind) ==
    /\ \E r \in InitRegs : DDRB = r[1] /\ PORTB = r[2]
    /\ caller = "none" /\ fn = "none" /\ apc = <<0, "call">>
    /\ addr7 = 0 /\ data = <<>> /\ len = 0 /\ reg = 0 /\ wval = 0
    /\ i = 0
    /\ buf = <<>> /\ val = 0 /\ ret = FALSE
    /\ pre = [buf |-> <<>>, val |-> 0]
    /\ sub = "none" /\ spc = 0
    /\ barg = 0 /\ b = 0 /\ bi = 0 /\ ackArg = FALSE /\ ack = FALSE
    /\ half = 1
    /\ settled = TRUE /\ quiet = TRUE
    /\ peerKind = kind
    /\ peerPat = SilentPat /\ clk = 9
    /\ mock = [rx |-> <<>>, idx |-> 0, rd |-> FALSE,
               ptr |-> <<>>, memReg |-> <<>>, memVal |-> <<>>]
    /\ bus = <<>> /\ latch = "none" /\ edges = <<>>
    /\ ops = <<>> /\ samples = <<>> /\ pats = <<>>
    /\ prev = NoPrev

Init == InitWith("any")

InitMock == InitWith("mock")

Engine ==
    \/ begin \/ write \/ writeRegister \/ readRegister
    \/ start_condition \/ stop_condition \/ write_byte \/ read_byte
    \/ sda_low \/ sda_release \/ scl_low \/ scl_release \/ i2c_delay

Next ==
    \/ CallBegin \/ CallWrite \/ CallRead \/ CallWriteRegister \/ CallReadRegister
    \/ read
    \/ Engine

NextMock ==
    \/ CallBegin \/ CallWriteRegister \/ CallReadRegister
    \/ Engine

Spec == Init /\ [][Next]_vars

SpecMock == InitMock /\ [][NextMock]_vars


-----------------------------------------------------------------------------
(* Vocabulary of the properties *)

\* The application's call of `name` has returned.
Returned(name) == fn = "none" /\ sub = "none" /\ caller = name

StartOp == OpRec("start_condition", 0, FALSE)
StopOp  == OpRec("stop_condition", 0, FALSE)
WriteOp(x, a) == OpRec("write_byte", x, a)
ReadOp(x, a)  == OpRec("read_byte", x, a)

RECURSIVE Exp2(_)
Exp2(n) == IF n = 0 THEN 1 ELSE 2 * Exp2(n - 1)

\* Bit (8-k) of x: the bit an MSB-first transfer moves in its k-th clock, k = 1..8.
MsbBit(x, k) == (x \div Exp2(8 - k)) % 2

\* The value whose bit (8-k) is lv[k], k = 1..8.
RECURSIVE MsbValue(_, _)
MsbValue(lv, k) == IF k = 0 THEN 0 ELSE MsbValue(lv, k - 1) + lv[k] * Exp2(8 - k)

\* What the decoder shows for a byte x the master writes MSB first and the peer
\* acknowledges, the peer keeping off SDA during the data bits.
WireWrite(x) == [k \in 1..9 |-> IF k = 9 THEN "0"
                                ELSE IF MsbBit(x, k) = 0 THEN "M" ELSE "1"]

RECURSIVE WireFrame(_)
WireFrame(bytes) ==
    IF bytes = <<>> THEN <<>> ELSE WireWrite(Head(bytes)) \o WireFrame(Tail(bytes))

\* The peer acknowledged every byte of the call so far / did nothing else.
PeerAcksAll == \A k \in DOMAIN pats : pats[k][9] = 0
PeerClean   == \A k \in DOMAIN pats : pats[k] = AckPat

\* The bytes write(addr7, data, len) has to put on the bus.
WriteBytes(a, d) == <<(2 * a) + 0>> \o d

-----------------------------------------------------------------------------
(* C1: with a peer that acknowledges every byte, write(a, data, N) runs    *)
(* exactly start_condition, write_byte((a<<1)|0), write_byte(data[0]) ..   *)
(* write_byte(data[N-1]), stop_condition, returns true, and the lines show *)
(* one start, the N+1 bytes MSB first each acknowledged, and one stop.     *)
C1_WriteFrame ==
    (Returned("write") /\ PeerAcksAll) =>
        LET bytes == WriteBytes(addr7, data)
        IN  /\ ret
            /\ Len(data) = len
            /\ ops = <<StartOp>>
                     \o [k \in 1..(len + 1) |-> WriteOp(bytes[k], TRUE)]
                     \o <<StopOp>>
            /\ PeerClean => bus = <<"S">> \o WireFrame(bytes) \o <<"P">>

\* write(0x3C, [0xAE]) against an always-ACK peer has returned.
C1_Witness ==
    /\ Returned("write") /\ PeerClean
    /\ addr7 = 60 /\ data = <<174>>
    /\ bus = <<"S", "M", "1", "1", "1", "1", "M", "M", "M", "0",      \* 0x78
                    "1", "M", "1", "M", "1", "1", "1", "M", "0",      \* 0xAE
                "P">>


-----------------------------------------------------------------------------
\* Number of k with seq[k] = e.
Count(seq, e) == Cardinality({k \in DOMAIN seq : seq[k] = e})

\* The first byte of the call the peer did not acknowledge.
FirstNack == CHOOSE k \in DOMAIN pats :
                 /\ pats[k][9] = 1
                 /\ \A j \in 1..(k - 1) : pats[j][9] = 0

(* C2: when the peer leaves some byte of a write unacknowledged, write     *)
(* sends nothing after the first such byte, runs stop_condition exactly    *)
(* once (one stop shows on the lines, at the end), and returns false.      *)
C2_WriteAbort ==
    (Returned("write") /\ ~PeerAcksAll) =>
        LET bytes == WriteBytes(addr7, data)
            f     == FirstNack
        IN  /\ ~ret
            /\ Len(pats) = f
            /\ ops = <<StartOp>>
                     \o [k \in 1..f |-> WriteOp(bytes[k], k < f)]
                     \o <<StopOp>>
            /\ Count(bus, "P") = 1
            /\ bus[Len(bus)] = "P"

\* A two-byte write whose first payload byte was not acknowledged has returned.
C2_Witness ==
    /\ Returned("write") /\ len = 2 /\ ~ret
    /\ Len(pats) = 2 /\ pats[1][9] = 0 /\ pats[2][9] = 1
    /\ Len(ops) = 4

(* C3: whenever write, read, writeRegister or readRegister has returned,   *)
(* with true or with false, the last routine it ran is stop_condition, the *)
(* last thing the lines showed is a stop, and the master has released both *)
(* SDA and SCL.                                                            *)
C3_StopLast ==
    \A name \in {"write", "read", "writeRegister", "readRegister"} :
        Returned(name) =>
            /\ ops # <<>>
            /\ ops[Len(ops)] = StopOp
            /\ bus # <<>>
            /\ bus[Len(bus)] = "P"
            /\ LineState(DDRB, PORTB, SDA_b) = "rel"
            /\ LineState(DDRB, PORTB, SCL_b) = "rel"

\* readRegister has returned false after the register byte went unacknowledged.
C3_Witness ==
    /\ Returned("readRegister") /\ ~ret
    /\ Len(ops) = 4
    /\ LineState(DDRB, PORTB, SDA_b) = "rel"
    /\ LineState(DDRB, PORTB, SCL_b) = "rel"


-----------------------------------------------------------------------------
(* C4: once the read-direction address byte (a<<1)|1 is acknowledged,      *)
(* read(a, buf, N) runs read_byte exactly N times, with ack = true for the *)
(* first N-1 and ack = false for the last; in the ninth clock of a data    *)
(* byte the master drives SDA low exactly for the first N-1 bytes; for     *)
(* N = 0 it runs only start_condition, the address byte and stop_condition.*)
C4_ReadAcks ==
    (Returned("read") /\ pats # <<>> /\ pats[1][9] = 0) =>
        /\ ret
        /\ Len(buf) = len
        /\ Len(pats) = len + 1
        /\ ops = <<StartOp, WriteOp((2 * addr7) + 1, TRUE)>>
                 \o [k \in 1..len |-> ReadOp(buf[k], k < len)]
                 \o <<StopOp>>
        /\ Len(bus) = 1 + (9 * (len + 1)) + 1
        /\ \A k \in 1..len : (bus[1 + 9 + (9 * k)] = "M") <=> (k < len)

\* A two-byte read has returned: ACK after the first byte, NACK after the second.
C4_Witness ==
    /\ Returned("read") /\ len = 2 /\ ret
    /\ pats[2][9] = 1 /\ pats[3][9] = 1
    /\ bus[19] = "M" /\ bus[28] = "1"

\* What the decoder shows for the eight data slots and the acknowledge slot of a
\* byte the peer presents as pattern p while the master does not acknowledge.
WireRead(p) == [k \in 1..9 |-> IF p[k] = 0 THEN "0" ELSE "1"]

(* C5: with a peer that acknowledges the three bytes written,              *)
(* readRegister(a, r, val) runs start, (a<<1)|0, r, start again, (a<<1)|1, *)
(* one read_byte with NACK, stop; the lines show the second start with no  *)
(* stop before it and one stop at the end; it returns true and val is the  *)
(* byte the peer presented, MSB first.                                     *)
C5_ReadRegisterFrame ==
    (Returned("readRegister") /\ \A k \in DOMAIN pats : k <= 3 => pats[k][9] = 0) =>
        /\ ret
        /\ Len(pats) = 4
        /\ val = MsbValue(pats[4], 8)
        /\ ops = <<StartOp, WriteOp(2 * addr7, TRUE), WriteOp(reg, TRUE),
                   StartOp, WriteOp((2 * addr7) + 1, TRUE), ReadOp(val, FALSE),
                   StopOp>>
        /\ Count(bus, "S") = 2
        /\ Count(bus, "P") = 1
        /\ (\A k \in 1..3 : pats[k] = AckPat) =>
              bus = <<"S">> \o WireWrite(2 * addr7) \o WireWrite(reg)
                    \o <<"S">> \o WireWrite((2 * addr7) + 1) \o WireRead(pats[4])
                    \o <<"P">>

\* readRegister(0x50, 0x00) against a peer returning 0x42 has returned 0x42.
C5_Witness ==
    /\ Returned("readRegister") /\ ret
    /\ addr7 = 80 /\ reg = 0 /\ val = 66
    /\ \A k \in 1..3 : pats[k] = AckPat
    /\ bus[20] = "S"

(* C6: bytes move most significant bit first.  When write_byte(x) is about *)
(* to return, the master held SDA low in the k-th clock-high phase iff bit *)
(* (8-k) of x is 0, k = 1..8; when read_byte is about to return, its       *)
(* result is the value whose bit (8-k) is the level sampled in the k-th    *)
(* clock-high phase, which is the level the lines showed then.             *)
C6_MsbFirst ==
    /\ (sub = "write_byte" /\ CurInstr = "return") =>
          /\ Len(bus) >= 9
          /\ \A k \in 1..8 :
                (bus[(Len(bus) - 9) + k] = "M") <=> (MsbBit(barg, k) = 0)
    /\ (sub = "read_byte" /\ CurInstr = "return") =>
          /\ Len(samples) = 8
          /\ Len(bus) >= 9
          /\ b = MsbValue(samples, 8)
          /\ \A k \in 1..8 :
                (bus[(Len(bus) - 9) + k] = "1") <=> (samples[k] = 1)

\* read_byte is about to return 0b10110010, sampled as 1,0,1,1,0,0,1,0.
C6_Witness ==
    /\ sub = "read_byte" /\ CurInstr = "return"
    /\ samples = <<1, 0, 1, 1, 0, 0, 1, 0>>
    /\ b = 178

(* C7: against the register device, writeRegister and readRegister return  *)
(* true, and readRegister(a, r, out) called right after writeRegister(a,   *)
(* r, v) leaves out = v.                                                   *)
C7_RoundTrip ==
    /\ Returned("writeRegister") => ret
    /\ Returned("readRegister") => ret
    /\ (Returned("readRegister") /\ prev.wr /\ prev.a = addr7 /\ prev.r = reg) =>
          (prev.ok /\ val = prev.v)

\* 0x80 written to register 0x10 has been read back.
C7_Witness ==
    /\ Returned("readRegister") /\ ret
    /\ prev.wr /\ prev.ok /\ prev.a = addr7 /\ prev.r = reg
    /\ reg = 16 /\ prev.v = 128 /\ val = 128

(* C8: once begin() has returned, no line is ever an output with its       *)
(* output bit high, also between the two register writes of a pin helper.  *)
C8_NeverDrivenHigh ==
    (caller # "none" /\ ~(caller = "begin" /\ fn = "begin")) =>
        /\ LineState(DDRB, PORTB, SDA_b) # "high"
        /\ LineState(DDRB, PORTB, SCL_b) # "high"

\* Between the two register writes of sda_low in a transfer, on a port whose
\* other pins are in use.
C8_Witness ==
    /\ sub = "write_byte" /\ CurInstr = "sda_low" /\ half = 2
    /\ LineState(DDRB, PORTB, SDA_b) = "low"
    /\ DDRB > 5

(* C9: whenever sda_read() is about to run (the acknowledge sample of      *)
(* write_byte, the eight samples of read_byte) the master has SDA released *)
(* and SCL released.                                                       *)
C9_SampleReleased ==
    CurInstr = "sample" =>
        /\ LineState(DDRB, PORTB, SDA_b) = "rel"
        /\ LineState(DDRB, PORTB, SCL_b) = "rel"

\* The acknowledge sample after 0xAE, whose last bit had SDA driven low.
C9_Witness ==
    /\ sub = "write_byte" /\ CurInstr = "sample" /\ barg = 174
    /\ LineState(DDRB, PORTB, SDA_b) = "rel"

(* C10: writeRegister(a, r, v) does what write(a, [r, v], 2) does: for     *)
(* every peer both run start, (a<<1)|0 and the payload bytes up to the     *)
(* first unacknowledged one, then stop, and return whether all were        *)
(* acknowledged; writeRegister's payload is [r, v].                        *)
C10_WriteRegisterIsWrite ==
    \A name \in {"write", "writeRegister"} :
        Returned(name) =>
            LET payload == IF name = "write" THEN data ELSE <<reg, wval>>
                bytes   == WriteBytes(addr7, payload)
                n       == IF PeerAcksAll THEN Len(bytes) ELSE FirstNack
            IN  /\ data = payload
                /\ len = Len(payload)
                /\ Len(pats) = n
                /\ ops = <<StartOp>>
                         \o [k \in 1..n |-> WriteOp(bytes[k], pats[k][9] = 0)]
                         \o <<StopOp>>
                /\ ret = PeerAcksAll

\* writeRegister has returned false: the value byte was not acknowledged.
C10_Witness ==
    /\ Returned("writeRegister") /\ ~ret
    /\ Len(pats) = 3
    /\ ops[4] = WriteOp(wval, FALSE)


-----------------------------------------------------------------------------
\* A pin helper is being called: its first register write is this step.
PinIssued == half = 1 /\ half' = 2

\* This step changes the state the master puts SDA or SCL in.
LineMoves == LinesChange(DDRB', PORTB')

\* Inside one of the four transfers.
InTransfer == fn \in {"write", "read", "writeRegister", "readRegister"}

(* C11 as stated: in every transfer, a pin helper is called, and SDA is    *)
(* sampled, only after an i2c_delay() that followed the previous pin       *)
(* helper call.                                                            *)
C11_DelayAfterEveryCall ==
    [][(InTransfer /\ (PinIssued \/ CurInstr = "sample")) => settled]_vars

(* C11 amended: in every transfer, each drive-low or release that changes  *)
(* the state of SDA or SCL is followed by at least one i2c_delay() before  *)
(* the next drive-low or release that changes the state of a line, and     *)
(* before SDA is sampled.                                                  *)
C11_DelayAfterEveryTransition ==
    [][(InTransfer /\ (LineMoves \/ CurInstr = "sample")) => quiet]_vars

\* A repeated start is about to release SCL, which is low, right after the call
\* of sda_release(), which changed nothing: no delay since that call.
C11_Witness ==
    /\ sub = "start_condition" /\ spc = 100 /\ half = 1
    /\ ops # <<>>
    /\ LineState(DDRB, PORTB, SCL_b) = "low"
    /\ ~settled /\ quiet


-----------------------------------------------------------------------------
\* The changes of the master's SDA state made, with SCL released, by `name`.
EdgesIn(name) == SelectSeq(edges, LAMBDA e : e.in = name)

FallEdge(name) == [from |-> "rel", to |-> "low", in |-> name]
RiseEdge(name) == [from |-> "low", to |-> "rel", in |-> name]

SdaState == LineState(DDRB, PORTB, SDA_b)
SclState == LineState(DDRB, PORTB, SCL_b)

(* C12: start_condition is entered with SDA released and SCL released      *)
(* (idle) or driven low (repeated start); each run of it makes exactly one *)
(* change of the master's SDA state while SCL is released, from released   *)
(* to low, and ends with SCL driven low.  stop_condition is entered with   *)
(* SCL driven low; each run makes exactly one such change, from low to     *)
(* released, and ends with both lines released.                            *)
C12_StartStopEdges ==
    /\ (sub = "start_condition" /\ spc = 99 /\ half = 1) =>
          /\ SdaState = "rel"
          /\ SclState \in {"rel", "low"}
    /\ (sub = "start_condition" /\ CurInstr = "return") =>
          /\ Len(EdgesIn("start_condition")) = Count(ops, StartOp) + 1
          /\ \A k \in DOMAIN edges :
                edges[k].in = "start_condition" =>
                    edges[k] = FallEdge("start_condition")
          /\ SclState = "low"
    /\ (sub = "stop_condition" /\ spc = 109 /\ half = 1) => SclState = "low"
    /\ (sub = "stop_condition" /\ CurInstr = "return") =>
          /\ Len(EdgesIn("stop_condition")) = Count(ops, StopOp) + 1
          /\ \A k \in DOMAIN edges :
                edges[k].in = "stop_condition" =>
                    edges[k] = RiseEdge("stop_condition")
          /\ SdaState = "rel"
          /\ SclState = "rel"

\* The repeated start of readRegister is about to return.
C12_Witness ==
    /\ sub = "start_condition" /\ CurInstr = "return"
    /\ fn = "readRegister"
    /\ Count(ops, StartOp) = 1
    /\ Len(EdgesIn("start_condition")) = 2


-----------------------------------------------------------------------------
StartStop == {"start_condition", "stop_condition"}

\* The running start_condition or stop_condition has made its edge and has
\* not yet returned.
EdgePending ==
    \/ sub = "start_condition" /\ (spc > 102 \/ (spc = 102 /\ half = 2))
    \/ sub = "stop_condition"  /\ (spc > 113 \/ (spc = 113 /\ half = 2))

\* Every change of the master's SDA state made with SCL released belongs to
\* start_condition or stop_condition, one per run of either.
EdgesAreStartStop ==
    /\ \A k \in DOMAIN edges : edges[k].in \in StartStop
    /\ Len(edges) = Count(ops, StartOp) + Count(ops, StopOp)
                      + (IF EdgePending THEN 1 ELSE 0)

(* C13: during a transfer, outside start_condition and stop_condition the  *)
(* master changes the state of SDA only while it drives SCL low; the       *)
(* changes of SDA made with SCL released are the start and stop edges, as  *)
(* many as the runs of start_condition and stop_condition, so write_byte   *)
(* and read_byte never put a start or a stop on the bus.                   *)
C13_NoSpuriousEdges ==
    [][/\ (InTransfer /\ sub \notin StartStop
             /\ LineState(DDRB', PORTB', SDA_b) # SdaState)
          => SclState = "low"
       /\ InTransfer' => EdgesAreStartStop']_vars

\* A read of two bytes has returned: write_byte and read_byte moved SDA many
\* times, and the only changes with SCL released are the start and the stop.
C13_Witness ==
    /\ Returned("read") /\ ret
    /\ len = 2
    /\ Len(edges) = 2
    /\ Count(ops, StartOp) = 1 /\ Count(ops, StopOp) = 1
    /\ \E k \in DOMAIN bus : bus[k] = "M"


-----------------------------------------------------------------------------
InByte == sub \in {"write_byte", "read_byte"}

(* C14: a byte transfer gives exactly nine clock pulses: the count of SCL  *)
(* falls never passes nine and is nine when write_byte or read_byte        *)
(* returns.  write_byte has SDA released when it raises SCL for the ninth  *)
(* pulse, samples SDA with SCL released during that pulse, returns true    *)
(* exactly when the sample is low, and returns with SCL driven low and SDA *)
(* released.                                                               *)
C14_NineClocks ==
    /\ InByte => clk <= 9
    /\ (InByte /\ CurInstr = "return") => clk = 9
    /\ (sub = "write_byte" /\ spc \in {130, 131, 132}) => SdaState = "rel"
    /\ (sub = "write_byte" /\ spc = 130 /\ half = 1) =>
          /\ clk = 8
          /\ SclState = "low"
    /\ (sub = "write_byte" /\ CurInstr = "sample") =>
          /\ clk = 8
          /\ SclState = "rel"
          /\ samples = <<>>
    /\ (sub = "write_byte" /\ CurInstr = "return") =>
          /\ Len(samples) = 1
          /\ ack <=> (samples[1] = 0)
          /\ SclState = "low"
          /\ SdaState = "rel"

\* The second byte of a transfer has been acknowledged: write_byte is about
\* to return true after nine pulses.
C14_Witness ==
    /\ sub = "write_byte" /\ CurInstr = "return"
    /\ clk = 9
    /\ ack /\ samples = <<0>>
    /\ Len(ops) = 2

\* write_byte is about to return false after sampling a released line.
C14_WitnessNack ==
    /\ sub = "write_byte" /\ CurInstr = "return"
    /\ clk = 9
    /\ ~ack /\ samples = <<1>>


-----------------------------------------------------------------------------
\* The processor always executes the next instruction of the running call:
\* the code is straight-line, single-threaded, and waits for nothing.
FairSpec == Spec /\ WF_vars(Engine \/ read)

\* A transfer has returned, and the last thing it did was stop_condition.
TransferDone ==
    /\ fn = "none" /\ sub = "none"
    /\ caller \in {"write", "read", "writeRegister", "readRegister"}
    /\ ops # <<>>
    /\ ops[Len(ops)] = StopOp

(* C15: every transfer, whatever the address, the length and the peer do   *)
(* (a peer that never acknowledges or holds SDA low throughout included),  *)
(* returns after finitely many steps, and its last bus action is           *)
(* stop_condition.                                                         *)
C15_Terminates == InTransfer ~> TransferDone

\* A read of the greatest length has returned although the peer held SDA low
\* during every byte.
C15_Witness ==
    /\ TransferDone /\ caller = "read"
    /\ len = MaxLen
    /\ Len(pats) = MaxLen + 1
    /\ \A k \in DOMAIN pats : pats[k] = HoldLow


-----------------------------------------------------------------------------
\* The peer has held SDA low during every byte of the call so far.
SdaStuckLow == pats # <<>> /\ \A k \in DOMAIN pats : pats[k] = HoldLow

TransferReturned ==
    /\ fn = "none" /\ sub = "none"
    /\ caller \in {"write", "read", "writeRegister", "readRegister"}

(* C16 as stated: when the peer holds SDA low throughout, the call to      *)
(* write, read or readRegister does not return.                            *)
C16_StuckSdaNeverReturns == SdaStuckLow => ~TransferReturned

(* C16 amended: a peer holding SDA low throughout does not hang the        *)
(* transfer.  No step of the running call waits on a line, so the call     *)
(* always has a next step; every sample reads low, so every byte written   *)
(* counts as acknowledged and every byte read is 0x00; the call returns    *)
(* true after its stop_condition.                                          *)
C16_StuckSdaReturnsTrue ==
    /\ (InTransfer /\ SdaStuckLow) => ENABLED (Engine \/ read)
    /\ SdaStuckLow =>
          \A k \in DOMAIN ops :
              /\ ops[k].op = "write_byte" => ops[k].a
              /\ ops[k].op = "read_byte"  => ops[k].x = 0
    /\ (TransferReturned /\ SdaStuckLow) =>
          /\ ret
          /\ ops[Len(ops)] = StopOp
          /\ caller = "read" =>
                \A k \in 1..len : buf[k] = 0

\* readRegister has returned true with val = 0x00 from a bus whose SDA the
\* peer held low throughout.
C16_Witness ==
    /\ TransferReturned /\ caller = "readRegister"
    /\ SdaStuckLow
    /\ Len(pats) = 4
    /\ ret /\ val = 0


-----------------------------------------------------------------------------
\* The peer left one of the bytes the call wrote unacknowledged.
SomeNack == \E k \in DOMAIN pats : k <= 3 /\ pats[k][9] = 1

(* C17: readRegister aborts at the first of its three written bytes that   *)
(* is not acknowledged.  After a NACK of the write-direction address it    *)
(* has issued neither the register byte nor a second start; after a NACK   *)
(* of the register byte, no repeated start and no read-direction address;  *)
(* after a NACK of the read-direction address, no data byte.  Each time it *)
(* has issued exactly one stop, and it returns false.                      *)
C17_ReadRegisterAbort ==
    (Returned("readRegister") /\ SomeNack) =>
        /\ ~ret
        /\ Len(pats) = FirstNack
        /\ Count(ops, StopOp) = 1
        /\ Count(bus, "P") = 1
        /\ \A k \in DOMAIN ops : ops[k].op # "read_byte"
        /\ FirstNack = 1 =>
              /\ ops = <<StartOp, WriteOp(2 * addr7, FALSE), StopOp>>
              /\ Count(bus, "S") = 1
        /\ FirstNack = 2 =>
              /\ ops = <<StartOp, WriteOp(2 * addr7, TRUE), WriteOp(reg, FALSE),
                         StopOp>>
              /\ Count(bus, "S") = 1
        /\ FirstNack = 3 =>
              /\ ops = <<StartOp, WriteOp(2 * addr7, TRUE), WriteOp(reg, TRUE),
                         StartOp, WriteOp((2 * addr7) + 1, FALSE), StopOp>>
              /\ Count(bus, "S") = 2

\* readRegister has returned after the peer acknowledged its address and
\* left the register byte unacknowledged.
C17_Witness ==
    /\ Returned("readRegister") /\ ~ret
    /\ pats = <<AckPat, SilentPat>>
    /\ Len(ops) = 4

\* readRegister has returned after the peer left the read-direction address
\* unacknowledged.
C17_WitnessReadAddress ==
    /\ Returned("readRegister") /\ ~ret
    /\ pats = <<AckPat, AckPat, SilentPat>>
    /\ Count(bus, "S") = 2


-----------------------------------------------------------------------------
\* The read_byte calls recorded in the call so far.
ReadOps == SelectSeq(ops, LAMBDA o : o.op = "read_byte")

(* C18: read returns false exactly when its read-direction address byte is *)
(* not acknowledged, and then clocks no data byte.  Once the address is    *)
(* acknowledged it clocks all len data bytes and returns true whatever the *)
(* peer does meanwhile: each byte of buf is what SDA showed, and a peer    *)
(* that stays off the bus gives 0xFF.                                      *)
C18_ReadFailsOnlyOnAddress ==
    Returned("read") =>
        /\ ret <=> (pats[1][9] = 0)
        /\ ops[2] = WriteOp((2 * addr7) + 1, ret)
        /\ ~ret => /\ Len(pats) = 1
                   /\ ReadOps = <<>>
        /\ ret => /\ Len(pats) = len + 1
                  /\ Len(ReadOps) = len
                  /\ \A k \in 1..len :
                        /\ buf[k] = MsbValue(pats[k + 1], 8)
                        /\ ReadOps[k].x = buf[k]
                        /\ pats[k + 1] = SilentPat => buf[k] = 255

\* read has returned true with two bytes of 0xFF: the peer acknowledged the
\* address and then stayed off the bus.
C18_Witness ==
    /\ Returned("read") /\ ret
    /\ len = 2
    /\ pats = <<AckPat, SilentPat, SilentPat>>
    /\ buf = <<255, 255>>


-----------------------------------------------------------------------------
(* C19: a failed transfer leaves the caller's output as it was.  When      *)
(* readRegister returns false, val holds the value it had before the call; *)
(* when read returns false, buf holds in every element the value it had    *)
(* before the call.                                                        *)
C19_FailureKeepsOutput ==
    /\ (Returned("readRegister") /\ ~ret) => val = pre.val
    /\ (Returned("read") /\ ~ret) => buf = pre.buf

\* readRegister has returned false after its second byte went
\* unacknowledged, and val still holds 0x5A.
C19_Witness ==
    /\ Returned("readRegister") /\ ~ret
    /\ Len(pats) = 2
    /\ pre.val = 90 /\ val = 90

\* read of two bytes has returned false, and buf still holds 0x5A twice.
C19_WitnessRead ==
    /\ Returned("read") /\ ~ret
    /\ len = 2
    /\ pre.buf = <<90, 90>> /\ buf = <<90, 90>>


-----------------------------------------------------------------------------
\* The bits of a port register other than PB0 (SDA) and PB2 (SCL).
OtherBits(x) == x - (BitOf(x, SDA_b) * Pow2(SDA_b)) - (BitOf(x, SCL_b) * Pow2(SCL_b))

(* C20: every step of every pin helper, and so of begin and of every       *)
(* transfer, leaves all bits of DDRB and of PORTB other than bit 0 (SDA)   *)
(* and bit 2 (SCL) as they were, whatever the registers held at first.     *)
C20_OnlyPinBitsChange ==
    [][/\ OtherBits(DDRB') = OtherBits(DDRB)
       /\ OtherBits(PORTB') = OtherBits(PORTB)]_vars

\* In the middle of a write the master holds both lines low, and the other
\* bits of DDRB (0xAA) and PORTB (0x50) are those the registers started with.
C20_Witness ==
    /\ fn = "write" /\ sub = "write_byte"
    /\ DDRB = 175 /\ PORTB = 80
    /\ OtherBits(DDRB) = 170 /\ OtherBits(PORTB) = 80
    /\ Len(ops) = 2

=============================================================================
